---- MODULE Spec2Model ----
(***************************************************************************)
(* OAuth credential store and token lifecycle of src/setup-oauth.ts:       *)
(* loadCredentials, saveCredentials, refreshAccessToken, ensureValidToken  *)
(* and setupOAuthCredentials, run by concurrent invocations that share the *)
(* credentials file ~/.claude/.credentials.json.                           *)
(***************************************************************************)
EXTENDS Integers, Sequences, FiniteSets

VARIABLES
    file,       \* the credentials file on disk
    now,        \* the clock, Math.floor(Date.now() / 1000)
    pc,         \* per invocation: the await it is suspended at
    arg,        \* per invocation: setupOAuthCredentials' argument
    loaded,     \* per invocation: how loadCredentials() completed
    cred,       \* per invocation: ensureValidToken's local `credentials`
    nowL,       \* per invocation: ensureValidToken's local `now`
    sent,       \* per invocation: the refresh_token posted to the endpoint
    resp,       \* per invocation: what the endpoint answered
    outcome,    \* per invocation: how the entry point's promise settled
    trace,      \* per invocation: the I/O it performed, in order
    before,     \* per invocation: the file as ensureValidToken's load found it,
                \* and whether no other invocation has written since
    seen,       \* per invocation: the write whose content it read: the record in
                \* memory, the entry point that wrote it, its token and expiry
    last,       \* the last successful write: who wrote, and what
    calls       \* the entry point calls made so far

vars == <<file, now, pc, arg, loaded, cred, nowL, sent, resp, outcome, trace, before, seen, last, calls>>

\* Two invocations, enough for every interleaving of two entry points.
Procs == {"p1", "p2"}

\* The clock starts at Now0 and advances at most MaxTicks seconds.
Now0 == 1000
MaxTicks == 1

\* At most MaxCalls calls of the entry points are followed.
MaxCalls == 3

\* src/setup-oauth.ts:77, the 300 seconds safety buffer.
ExpiryBuffer == 300

-----------------------------------------------------------------------------
(* JavaScript values. Every value has the same shape so that any two can   *)
(* be compared: t is the type tag, n the number, s the string.             *)

Num(n) == [t |-> "num", n |-> n, s |-> ""]
Str(s) == [t |-> "str", n |-> 0, s |-> s]
NaN == [t |-> "nan", n |-> 0, s |-> ""]
Null == [t |-> "null", n |-> 0, s |-> ""]
Undefined == [t |-> "undef", n |-> 0, s |-> ""]

\* ToNumber: null is 0, undefined is NaN; the strings of this model are
\* opaque tokens, none of them a numeric literal, so they are NaN.
ToNumber(v) ==
    CASE v.t = "num" -> v
      [] v.t = "null" -> Num(0)
      [] OTHER -> NaN

\* a - b on numbers, NaN when either operand is.
Minus(a, b) ==
    LET x == ToNumber(a)
        y == ToNumber(b)
    IN  IF x.t = "num" /\ y.t = "num" THEN Num(x.n - y.n) ELSE NaN

\* a + b for a numeric left operand, as in `now + expires_in`.
Plus(a, b) ==
    LET x == ToNumber(a)
        y == ToNumber(b)
    IN  IF x.t = "num" /\ y.t = "num" THEN Num(x.n + y.n) ELSE NaN

\* a <= b: every comparison with NaN is false.
LessEq(a, b) ==
    LET x == ToNumber(a)
        y == ToNumber(b)
    IN  x.t = "num" /\ y.t = "num" /\ x.n <= y.n

-----------------------------------------------------------------------------
(* parseInt(string), radix omitted: leading white space, an optional sign, *)
(* an optional 0x prefix, then the longest prefix of digits; NaN when      *)
(* there is no digit. A string is a sequence of one-character strings.     *)

Digits == <<"0", "1", "2", "3", "4", "5", "6", "7", "8", "9",
            "a", "b", "c", "d", "e", "f">>

DigitValue(c, radix) ==
    IF \E i \in 1..radix : Digits[i] = c
    THEN (CHOOSE i \in 1..radix : Digits[i] = c) - 1
    ELSE -1

RECURSIVE SkipWhite(_)
SkipWhite(s) ==
    IF s # <<>> /\ Head(s) = " " THEN SkipWhite(Tail(s)) ELSE s

\* The digits of s from the left: [seen, n], the count read and their value.
RECURSIVE ReadDigits(_, _, _, _)
ReadDigits(s, radix, count, acc) ==
    IF s = <<>> \/ DigitValue(Head(s), radix) < 0
    THEN [seen |-> count, n |-> acc]
    ELSE ReadDigits(Tail(s), radix, count + 1, acc * radix + DigitValue(Head(s), radix))

parseInt(str) ==
    LET s0 == SkipWhite(str)
        neg == s0 # <<>> /\ Head(s0) = "-"
        s1 == IF s0 # <<>> /\ Head(s0) \in {"-", "+"} THEN Tail(s0) ELSE s0
        hex == Len(s1) >= 2 /\ s1[1] = "0" /\ s1[2] \in {"x", "X"}
        s2 == IF hex THEN Tail(Tail(s1)) ELSE s1
        d == ReadDigits(s2, IF hex THEN 16 ELSE 10, 0, 0)
    IN  IF d.seen = 0 THEN NaN
        ELSE Num(IF neg THEN 0 - d.n ELSE d.n)

-----------------------------------------------------------------------------
(* The credentials document (StoredCredentials, lines 11-18) as the value  *)
(* JSON.parse returns: null, or an object that may hold claudeAiOauth and  *)
(* may hold other keys (extra). A property that is absent is Undefined.    *)

FixedScopes == <<"user:inference", "user:profile">>

NoOauth ==
    [accessToken |-> Undefined, refreshToken |-> Undefined,
     expiresAt |-> Undefined, scopes |-> <<>>]

NullDoc == [top |-> "null", hasOauth |-> FALSE, oauth |-> NoOauth, extra |-> ""]

EmptyDoc == [top |-> "object", hasOauth |-> FALSE, oauth |-> NoOauth, extra |-> ""]

Doc(access, refresh, expires, scopes, extra) ==
    [top |-> "object", hasOauth |-> TRUE,
     oauth |-> [accessToken |-> access, refreshToken |-> refresh,
                expiresAt |-> expires, scopes |-> scopes],
     extra |-> extra]

\* A bug the serialization could have: NaN is written as it is (as JSON5
\* would), and read back as NaN.
JsonValueKeepsNaN(v) == v

\* JSON.stringify of one property value: NaN is written as null, a string
\* and a finite number as themselves, undefined leaves the property out.
JsonValue(v) == IF v.t = "nan" THEN Null ELSE v

\* JSON.stringify(doc, null, 2): the text, a well-formed JSON document.
JSONstringify(doc) ==
    [syntax |-> "ok",
     json |-> [doc EXCEPT !.oauth.accessToken = JsonValue(@),
                          !.oauth.refreshToken = JsonValue(@),
                          !.oauth.expiresAt = JsonValue(@)]]

\* A text that is no JSON document.
Garbage == [syntax |-> "bad", json |-> NullDoc]

\* Completions: a call returns a value or throws an error.
Return(v) == [threw |-> FALSE, value |-> v, error |-> ""]
Throw(e) == [threw |-> TRUE, value |-> NullDoc, error |-> e]

\* JSON.parse(text), line 52.
JSONparse(text) ==
    IF text.syntax = "ok" THEN Return(text.json) ELSE Throw("SyntaxError")

-----------------------------------------------------------------------------
(* The file at <home>/.claude/.credentials.json: missing (ENOENT), not a   *)
(* readable regular file (the path is a directory: EISDIR on read and on   *)
(* write), or a regular file holding a text.                               *)

Missing == [kind |-> "missing", text |-> Garbage]
Unreadable == [kind |-> "unreadable", text |-> Garbage]
TextFile(text) == [kind |-> "text", text |-> text]

\* readFile(credentialsPath, "utf-8"), line 51.
readFile(f) ==
    CASE f.kind = "missing" -> [threw |-> TRUE, text |-> Garbage, error |-> "ENOENT"]
      [] f.kind = "unreadable" -> [threw |-> TRUE, text |-> Garbage, error |-> "EISDIR"]
      [] OTHER -> [threw |-> FALSE, text |-> f.text, error |-> ""]

\* A bug loadCredentials could have: a parse failure escapes the catch.
loadCredentialsRethrow(f) ==
    LET r == readFile(f)
    IN  IF r.threw THEN Return(NullDoc) ELSE JSONparse(r.text)

\* loadCredentials(), lines 46-56: the parsed document, null when reading
\* or parsing throws.
loadCredentials(f) ==
    LET r == readFile(f)
    IN  IF r.threw THEN Return(NullDoc)
        ELSE LET j == JSONparse(r.text)
             IN  IF j.threw THEN Return(NullDoc) ELSE Return(j.value)

\* A bug saveCredentials could have: it merges into what is on disk,
\* keeping the stored refresh token when there is one.
writtenFileMerge(credentials) ==
    LET cur == loadCredentials(file).value
    IN  IF cur.hasOauth /\ credentials.hasOauth
        THEN TextFile(JSONstringify(
                 [credentials EXCEPT !.oauth.refreshToken = cur.oauth.refreshToken]))
        ELSE TextFile(JSONstringify(credentials))

\* writeFile(credentialsPath, JSON.stringify(credentials, null, 2)), lines
\* 63 and 114: the file after a write that succeeded. Prior content is gone.
writtenFile(credentials) == TextFile(JSONstringify(credentials))

-----------------------------------------------------------------------------
(* The decisions and the records the entry points compute.                 *)

\* A bug line 69 could have: the check for a missing record is left out.
IsAbsentNever(c) == FALSE

\* `!credentials`, line 69: of the documents JSON.parse returns, null.
IsAbsent(c) == c.top = "null"

\* The buffer off by one: a token 301 seconds from expiry is refreshed.
NeedsRefreshWide(expiresAt, n) ==
    LessEq(Minus(expiresAt, Num(n)), Num(ExpiryBuffer + 1))

\* `expiresAt - now <= 300`, line 77.
NeedsRefresh(expiresAt, n) ==
    LessEq(Minus(expiresAt, Num(n)), Num(ExpiryBuffer))

\* A bug the update could have: the refresh token is not rotated.
RefreshedKeepsRefreshToken(c, r, n) ==
    [c EXCEPT !.oauth.accessToken = r.access_token,
              !.oauth.expiresAt = Plus(Num(n), r.expires_in)]

\* A bug the update could have: the expiry of the old token is kept.
RefreshedKeepsExpiry(c, r, n) ==
    [c EXCEPT !.oauth.accessToken = r.access_token,
              !.oauth.refreshToken = r.refresh_token]

\* A bug the update could have: the record is built anew, with the scopes
\* setup gives and nothing else of the document.
RefreshedBuiltAnew(c, r, n) ==
    Doc(r.access_token, r.refresh_token, Plus(Num(n), r.expires_in), FixedScopes, "")

\* Lines 84-86: `credentials` after the three assignments.
Refreshed(c, r, n) ==
    [c EXCEPT !.oauth.accessToken = r.access_token,
              !.oauth.refreshToken = r.refresh_token,
              !.oauth.expiresAt = Plus(Num(n), r.expires_in)]

\* A bug setup could have: it keeps what the stored document holds beside
\* the tokens, and the stored refresh token.
SetupRecordMerge(a) ==
    LET cur == loadCredentials(file).value
    IN  IF cur.hasOauth
        THEN Doc(a.accessToken, cur.oauth.refreshToken, parseInt(a.expiresAt),
                 FixedScopes, cur.extra)
        ELSE Doc(a.accessToken, a.refreshToken, parseInt(a.expiresAt), FixedScopes, "")

\* Lines 104-111: credentialsData.
SetupRecord(a) ==
    Doc(a.accessToken, a.refreshToken, parseInt(a.expiresAt), FixedScopes, "")

-----------------------------------------------------------------------------
(* How an entry point's promise settles. An Error is its message: the      *)
(* wrapper of line 91 when there is one, the text, and the HTTP status     *)
(* the text of line 40 carries (0 when it carries none).                   *)

Pending == [status |-> "none", wrapper |-> "", message |-> "", httpStatus |-> 0]
Fulfilled == [status |-> "ok", wrapper |-> "", message |-> "", httpStatus |-> 0]
Rejected(message, httpStatus) ==
    [status |-> "error", wrapper |-> "", message |-> message, httpStatus |-> httpStatus]

\* Line 70.
MissingCredentialsError ==
    Rejected("No OAuth credentials found. Please set up OAuth first.", 0)

\* Line 74 on a document without claudeAiOauth.
TypeError == Rejected("Cannot read properties of undefined (reading 'expiresAt')", 0)

\* A bug line 40 could have: the status is left out of the message.
HttpErrorNoStatus(status) == Rejected("Failed to refresh token: ", 0)

\* Line 40: `Failed to refresh token: ${response.status} ${errorText}`.
HttpError(status) == Rejected("Failed to refresh token: ", status)

\* fetch rejecting: no response at all.
TransportError == Rejected("fetch failed", 0)

\* mkdir or writeFile rejecting.
FsError(code) == Rejected(code, 0)

\* What writeFile rejects with: the path is a directory, or the disk
\* refused the write.
WriteErrorCode == IF file.kind = "unreadable" THEN "EISDIR" ELSE "ENOSPC"

\* A bug the catch of lines 90-92 could have: the error is rethrown as it
\* came.
WrapRefreshErrorNone(e) == e

\* Line 91: `Failed to refresh OAuth token: ${error.message}`.
WrapRefreshError(e) == [e EXCEPT !.wrapper = "Failed to refresh OAuth token: "]

\* A bug the try of lines 80-92 could have: the failure is swallowed and
\* the save runs all the same.
AfterExchangeAlwaysSaves(threw) == "ev_mkdir"

\* A bug the catch of lines 90-92 could have: it waits for a retry that is
\* never scheduled, and the promise never settles.
AfterExchangeWaits(threw) == IF threw THEN "ev_backoff" ELSE "ev_mkdir"

\* Lines 80-92: after the exchange, save; if it threw, rethrow.
AfterExchange(threw) == IF threw THEN "done" ELSE "ev_mkdir"

-----------------------------------------------------------------------------
(* The environment: what the file holds at first, what setup is given,     *)
(* what the token endpoint answers.                                        *)

InitialDocs ==
    { NullDoc,
      EmptyDoc,
      Doc(Str("A0"), Str("R0"), Undefined, FixedScopes, ""),
      Doc(Str("A0"), Str("R0"), Num(Now0 + ExpiryBuffer), FixedScopes, ""),
      Doc(Str("A0"), Str("R0"), Num(Now0 + ExpiryBuffer + 1), <<"user:inference">>, "x") }

InitialFiles ==
    {Missing, Unreadable, TextFile(Garbage)}
        \cup {TextFile(JSONstringify(d)) : d \in InitialDocs}

NoArg == [accessToken |-> Undefined, refreshToken |-> Undefined, expiresAt |-> <<>>]

\* OAuthCredentials, lines 5-9; expiresAt is a string.
SetupInputs ==
    { [accessToken |-> Str("A1"), refreshToken |-> Str("R1"),
       expiresAt |-> <<"1", "3", "0", "1">>],
      [accessToken |-> Str("A2"), refreshToken |-> Str("R2"),
       expiresAt |-> <<"a", "b", "c">>] }

NoResponse ==
    [access_token |-> Undefined, refresh_token |-> Undefined, expires_in |-> Undefined]

\* RefreshTokenResponse, lines 20-24. The endpoint may answer with the
\* tokens it was sent and with any lifetime.
Responses ==
    { [access_token |-> Str("A8"), refresh_token |-> Str("R8"),
       expires_in |-> Num(ExpiryBuffer + 1)],
      [access_token |-> Str("A0"), refresh_token |-> Str("R0"),
       expires_in |-> Num(ExpiryBuffer)] }

NoExchange == [kind |-> "none", status |-> 0, body |-> NoResponse]

\* What fetch and the reading of the body come to.
Exchanges ==
    {[kind |-> "ok", status |-> 200, body |-> b] : b \in Responses}
        \cup {[kind |-> "http", status |-> st, body |-> NoResponse] : st \in {401}}
        \cup {[kind |-> "transport", status |-> 0, body |-> NoResponse]}

\* refreshAccessToken(refreshToken), lines 26-44, given what the endpoint did.
refreshAccessToken(x) ==
    CASE x.kind = "ok" -> [threw |-> FALSE, body |-> x.body, error |-> Pending]
      [] x.kind = "http" -> [threw |-> TRUE, body |-> NoResponse, error |-> HttpError(x.status)]
      [] OTHER -> [threw |-> TRUE, body |-> NoResponse, error |-> TransportError]

-----------------------------------------------------------------------------
(* State.                                                                  *)

\* No write yet: the file is as it was at first.
NoWrite ==
    [op |-> "none", by |-> "", input |-> NoArg, rec |-> NullDoc,
     pair |-> <<Undefined, Undefined>>]

\* The content read is the file as it was at first, or nothing was read.
NothingSeen ==
    [some |-> FALSE, rec |-> NullDoc, op |-> "none", pair |-> <<Undefined, Undefined>>]

Init ==
    /\ file \in InitialFiles
    /\ now = Now0
    /\ pc = [p \in Procs |-> "idle"]
    /\ arg = [p \in Procs |-> NoArg]
    /\ loaded = [p \in Procs |-> Return(NullDoc)]
    /\ cred = [p \in Procs |-> NullDoc]
    /\ nowL = [p \in Procs |-> 0]
    /\ sent = [p \in Procs |-> Undefined]
    /\ resp = [p \in Procs |-> NoExchange]
    /\ outcome = [p \in Procs |-> Pending]
    /\ trace = [p \in Procs |-> <<>>]
    /\ before = [p \in Procs |-> [file |-> Missing, intact |-> TRUE]]
    /\ seen = [p \in Procs |-> NothingSeen]
    /\ last = NoWrite
    /\ calls = 0

\* An entry point is called: its locals are fresh. snapshot is the file as
\* the call reads it; setup reads nothing.
Enter(p, a, snapshot) ==
    /\ pc[p] \in {"idle", "done"}
    /\ calls < MaxCalls
    /\ calls' = calls + 1
    /\ arg' = [arg EXCEPT ![p] = a]
    /\ nowL' = [nowL EXCEPT ![p] = 0]
    /\ sent' = [sent EXCEPT ![p] = Undefined]
    /\ resp' = [resp EXCEPT ![p] = NoExchange]
    /\ before' = [before EXCEPT ![p] = [file |-> snapshot, intact |-> TRUE]]
    /\ UNCHANGED <<file, now, last>>

\* The promise settles.
Settle(p, o) ==
    /\ pc' = [pc EXCEPT ![p] = "done"]
    /\ outcome' = [outcome EXCEPT ![p] = o]

\* writeFile resolved for p: the file is replaced as a whole.
Written(p, op, record, pair) ==
    /\ file' = writtenFile(record)
    /\ last' = [op |-> op, by |-> p, input |-> arg[p], rec |-> record, pair |-> pair]
    /\ before' = [q \in Procs |->
                    IF q = p THEN before[q] ELSE [before[q] EXCEPT !.intact = FALSE]]

-----------------------------------------------------------------------------
(* ensureValidToken, lines 66-94, one action per await.                    *)

\* Lines 66-67: the call, and loadCredentials() reading the file.
EnsureCall(p) ==
    /\ Enter(p, NoArg, file)
    /\ LET c == loadCredentials(file)
       IN  /\ loaded' = [loaded EXCEPT ![p] = c]
           /\ cred' = [cred EXCEPT ![p] = c.value]
           /\ seen' = [seen EXCEPT ![p] =
                         [some |-> last.op # "none", rec |-> last.rec,
                          op |-> last.op, pair |-> last.pair]]
           /\ IF c.threw
              THEN Settle(p, Rejected(c.error, 0))
              ELSE /\ pc' = [pc EXCEPT ![p] = "ev_decide"]
                   /\ outcome' = [outcome EXCEPT ![p] = Pending]
    /\ trace' = [trace EXCEPT ![p] = <<"load">>]

\* Lines 69-81, up to the call of fetch.
EvDecide(p) ==
    /\ pc[p] = "ev_decide"
    /\ IF IsAbsent(cred[p])
       THEN /\ Settle(p, MissingCredentialsError)
            /\ UNCHANGED <<nowL, sent, trace>>
       ELSE IF ~cred[p].hasOauth
       THEN /\ Settle(p, TypeError)
            /\ nowL' = [nowL EXCEPT ![p] = now]
            /\ UNCHANGED <<sent, trace>>
       ELSE /\ nowL' = [nowL EXCEPT ![p] = now]
            /\ IF NeedsRefresh(cred[p].oauth.expiresAt, now)
               THEN /\ pc' = [pc EXCEPT ![p] = "ev_fetch"]
                    /\ sent' = [sent EXCEPT ![p] = cred[p].oauth.refreshToken]
                    /\ trace' = [trace EXCEPT ![p] = Append(@, "fetch")]
                    /\ UNCHANGED outcome
               ELSE /\ Settle(p, Fulfilled)
                    /\ UNCHANGED <<sent, trace>>
    /\ UNCHANGED <<file, now, arg, loaded, cred, resp, before, seen, last, calls>>

\* Line 81: await refreshAccessToken(...), then lines 84-86 or line 91.
EvExchange(p) ==
    /\ pc[p] = "ev_fetch"
    /\ \E x \in Exchanges :
         LET r == refreshAccessToken(x)
         IN  /\ pc' = [pc EXCEPT ![p] = AfterExchange(r.threw)]
             /\ resp' = [resp EXCEPT ![p] = x]
             /\ IF r.threw
                THEN /\ outcome' = [outcome EXCEPT ![p] = WrapRefreshError(r.error)]
                     /\ trace' = [trace EXCEPT ![p] = Append(@, "fetchFailed")]
                     /\ UNCHANGED cred
                ELSE /\ cred' = [cred EXCEPT ![p] = Refreshed(@, r.body, nowL[p])]
                     /\ trace' = [trace EXCEPT ![p] = Append(@, "fetchOk")]
                     /\ UNCHANGED outcome
    /\ UNCHANGED <<file, now, arg, loaded, nowL, sent, before, seen, last, calls>>

\* Line 62, in saveCredentials: await mkdir(claudeDir, {recursive: true}).
EvMkdir(p) ==
    /\ pc[p] = "ev_mkdir"
    /\ \E ok \in BOOLEAN :
         IF ok
         THEN /\ pc' = [pc EXCEPT ![p] = "ev_write"]
              /\ trace' = [trace EXCEPT ![p] = Append(@, "mkdir")]
              /\ UNCHANGED outcome
         ELSE /\ Settle(p, WrapRefreshError(FsError("EACCES")))
              /\ trace' = [trace EXCEPT ![p] = Append(@, "mkdirFailed")]
    /\ UNCHANGED <<file, now, arg, loaded, cred, nowL, sent, resp, before, seen, last, calls>>

\* Line 63, in saveCredentials: await writeFile(...), then line 89.
EvWrite(p) ==
    /\ pc[p] = "ev_write"
    /\ \E ok \in BOOLEAN :
         IF ok /\ file.kind # "unreadable"
         THEN /\ Written(p, "refresh", cred[p],
                         <<resp[p].body.access_token,
                           JsonValue(Plus(Num(nowL[p]), resp[p].body.expires_in))>>)
              /\ Settle(p, Fulfilled)
              /\ trace' = [trace EXCEPT ![p] = Append(@, "write")]
         ELSE /\ Settle(p, WrapRefreshError(FsError(WriteErrorCode)))
              /\ trace' = [trace EXCEPT ![p] = Append(@, "writeFailed")]
              /\ UNCHANGED <<file, before, last>>
    /\ UNCHANGED <<now, arg, loaded, cred, nowL, sent, resp, seen, calls>>

-----------------------------------------------------------------------------
(* setupOAuthCredentials, lines 96-117.                                    *)

\* A bug setup could have: it asks for a stored record first, as
\* ensureValidToken does.
SetupEntryChecksRecord == "ev_decide"

\* Lines 96-101: setup's first await is mkdir; it never loads.
SetupEntry == "su_mkdir"

\* Lines 96-101: the call, up to the call of mkdir.
SetupCall(p) ==
    /\ \E a \in SetupInputs : Enter(p, a, Missing)
    /\ pc' = [pc EXCEPT ![p] = SetupEntry]
    /\ outcome' = [outcome EXCEPT ![p] = Pending]
    /\ trace' = [trace EXCEPT ![p] = <<>>]
    /\ loaded' = [loaded EXCEPT ![p] = Return(NullDoc)]
    /\ cred' = [cred EXCEPT ![p] = NullDoc]
    /\ seen' = [seen EXCEPT ![p] = NothingSeen]

\* Line 101: await mkdir(claudeDir, {recursive: true}).
SuMkdir(p) ==
    /\ pc[p] = "su_mkdir"
    /\ \E ok \in BOOLEAN :
         IF ok
         THEN /\ pc' = [pc EXCEPT ![p] = "su_write"]
              /\ trace' = [trace EXCEPT ![p] = Append(@, "mkdir")]
              /\ UNCHANGED outcome
         ELSE /\ Settle(p, FsError("EACCES"))
              /\ trace' = [trace EXCEPT ![p] = Append(@, "mkdirFailed")]
    /\ UNCHANGED <<file, now, arg, loaded, cred, nowL, sent, resp, before, seen, last, calls>>

\* Lines 104-116: build credentialsData, await writeFile(...).
SuWrite(p) ==
    /\ pc[p] = "su_write"
    /\ \E ok \in BOOLEAN :
         IF ok /\ file.kind # "unreadable"
         THEN /\ Written(p, "setup", SetupRecord(arg[p]),
                         <<arg[p].accessToken, JsonValue(parseInt(arg[p].expiresAt))>>)
              /\ Settle(p, Fulfilled)
              /\ trace' = [trace EXCEPT ![p] = Append(@, "write")]
         ELSE /\ Settle(p, FsError(WriteErrorCode))
              /\ trace' = [trace EXCEPT ![p] = Append(@, "writeFailed")]
              /\ UNCHANGED <<file, before, last>>
    /\ UNCHANGED <<now, arg, loaded, cred, nowL, sent, resp, seen, calls>>

-----------------------------------------------------------------------------

\* Date.now() moves on.
Tick ==
    /\ now < Now0 + MaxTicks
    /\ now' = now + 1
    /\ UNCHANGED <<file, pc, arg, loaded, cred, nowL, sent, resp, outcome, trace,
                   before, seen, last, calls>>

Next ==
    \/ Tick
    \/ \E p \in Procs :
         \/ EnsureCall(p)
         \/ EvDecide(p)
         \/ EvExchange(p)
         \/ EvMkdir(p)
         \/ EvWrite(p)
         \/ SetupCall(p)
         \/ SuMkdir(p)
         \/ SuWrite(p)

Spec == Init /\ [][Next]_vars

\* The continuation of p's pending await: one of these is enabled exactly
\* while p's call is running.
Continue(p) ==
    \/ EvDecide(p)
    \/ EvExchange(p)
    \/ EvMkdir(p)
    \/ EvWrite(p)
    \/ SuMkdir(p)
    \/ SuWrite(p)

\* Every await returns: readFile, fetch, mkdir and writeFile each resolve
\* or reject, and the continuation then runs. Nothing obliges a caller to
\* call, nor the clock to advance.
Returns(p) == WF_vars(Continue(p))

FairSpec == Spec /\ \A p \in Procs : Returns(p)

-----------------------------------------------------------------------------
(* Vocabulary of the properties.                                           *)

\* p's current or last call is a call of ensureValidToken.
IsEnsure(p) == trace[p] # <<>> /\ trace[p][1] = "load"

\* How often p's call did e.
Count(p, e) == Cardinality({i \in DOMAIN trace[p] : trace[p][i] = e})

\* p's call has returned or thrown.
Done(p) == pc[p] = "done"

\* What loadCredentials gave p: a document holding a claudeAiOauth record.
LoadedRecord(p) == ~loaded[p].threw /\ loaded[p].value.hasOauth

\* `expiresAt - now`, of the record p loaded and the clock p read (line 73).
Remaining(p) == Minus(loaded[p].value.oauth.expiresAt, Num(nowL[p]))

\* `expiresAt - now > 300` and `expiresAt - now <= 300` as JavaScript
\* decides them.
StillValid(p) == Remaining(p).t = "num" /\ Remaining(p).n > 300
Expiring(p) == Remaining(p).t = "num" /\ Remaining(p).n <= 300

\* No invocation of p's call wrote the file, and nobody else did since the
\* call: the file is what it was when p was called.
FileAsBefore(p) == before[p].intact => file = before[p].file

\* The stored record, when the file holds one.
Stored == file.text.json.oauth

\* The three fields of the stored record are the ones of p's response.
StoredFromResponse(p) ==
    /\ file.kind = "text" /\ file.text.syntax = "ok" /\ file.text.json.hasOauth
    /\ Stored.accessToken = resp[p].body.access_token
    /\ Stored.refreshToken = resp[p].body.refresh_token
    /\ Stored.expiresAt = Num(nowL[p] + resp[p].body.expires_in.n)

-----------------------------------------------------------------------------
(* C1 - C5                                                                 *)

\* C1: for every stored record with expiresAt - now > 300, a call of
\* ensureValidToken performs no remote call and no write (its only I/O is
\* the load), completes without error, and leaves the file as it was.
C1_ValidTokenUntouched ==
    \A p \in Procs :
        (IsEnsure(p) /\ pc[p] \notin {"ev_decide"} /\ LoadedRecord(p) /\ StillValid(p))
            => /\ Done(p)
               /\ outcome[p] = Fulfilled
               /\ trace[p] = <<"load">>
               /\ FileAsBefore(p)

\* C1's case: a call that found a record more than 300 seconds from expiry
\* has returned.
C1_Witness ==
    \E p \in Procs :
        /\ IsEnsure(p) /\ Done(p) /\ LoadedRecord(p) /\ StillValid(p)
        /\ before[p].intact

\* C2 as stated: for every stored record with expiresAt - now <= 300, the
\* call performs exactly one remote call, and when that remote call
\* succeeds the stored accessToken, refreshToken and expiresAt are the
\* response's values and none of the three keeps its old value.
C2_AsStated ==
    \A p \in Procs :
        (IsEnsure(p) /\ Done(p) /\ LoadedRecord(p) /\ Expiring(p))
            => /\ Count(p, "fetch") = 1
               /\ (resp[p].kind = "ok" /\ before[p].intact)
                     => /\ StoredFromResponse(p)
                        /\ Stored.accessToken # loaded[p].value.oauth.accessToken
                        /\ Stored.refreshToken # loaded[p].value.oauth.refreshToken
                        /\ Stored.expiresAt # loaded[p].value.oauth.expiresAt

\* C2 amended: for every stored record with expiresAt - now <= 300 (the
\* boundary included) the call performs exactly one remote call; when that
\* call succeeds and the save that follows succeeds too, the stored
\* accessToken, refreshToken and expiresAt are the response's access_token,
\* refresh_token and now + expires_in; when the save fails the file is as
\* it was.
C2_RefreshReplacesAll ==
    \A p \in Procs :
        (IsEnsure(p) /\ pc[p] \notin {"ev_decide"} /\ LoadedRecord(p) /\ Expiring(p))
            => /\ Count(p, "fetch") = 1
               /\ Count(p, "fetchOk") + Count(p, "fetchFailed") <= 1
               /\ (Done(p) /\ resp[p].kind = "ok" /\ outcome[p] = Fulfilled)
                     => /\ Count(p, "write") = 1
                        /\ last.by = p => StoredFromResponse(p)
               /\ (Done(p) /\ resp[p].kind = "ok" /\ outcome[p] # Fulfilled)
                     => FileAsBefore(p)

\* C2's case: a record exactly 300 seconds from expiry was refreshed and
\* saved, and the response's tokens differ from the old ones.
C2_Witness ==
    \E p \in Procs :
        /\ IsEnsure(p) /\ Done(p) /\ LoadedRecord(p)
        /\ Remaining(p) = Num(300)
        /\ outcome[p] = Fulfilled /\ last.by = p
        /\ resp[p].body.access_token # loaded[p].value.oauth.accessToken

\* C3: if the remote exchange fails (a non-success status such as 401, or a
\* transport failure), ensureValidToken ends in an error that carries the
\* response status (or the underlying message), makes no further remote
\* call, and leaves the file as it was.
C3_RefreshFailureIsTerminal ==
    \A p \in Procs :
        (IsEnsure(p) /\ resp[p].kind \in {"http", "transport"})
            => /\ Done(p)
               /\ outcome[p].status = "error"
               /\ outcome[p].wrapper = "Failed to refresh OAuth token: "
               /\ resp[p].kind = "http"
                     => /\ outcome[p].message = "Failed to refresh token: "
                        /\ outcome[p].httpStatus = resp[p].status
               /\ resp[p].kind = "transport" => outcome[p].message = "fetch failed"
               /\ trace[p] = <<"load", "fetch", "fetchFailed">>
               /\ FileAsBefore(p)

\* C3's case: the endpoint answered 401.
C3_Witness ==
    \E p \in Procs :
        /\ IsEnsure(p) /\ Done(p) /\ resp[p].kind = "http" /\ resp[p].status = 401
        /\ before[p].intact

\* C4: if load returns absent, ensureValidToken fails with the
\* missing-credentials error and performs no remote call and no write.
C4_MissingCredentialsIsTerminal ==
    \A p \in Procs :
        (IsEnsure(p) /\ pc[p] \notin {"ev_decide"} /\ loaded[p] = Return(NullDoc))
            => /\ Done(p)
               /\ outcome[p] = MissingCredentialsError
               /\ trace[p] = <<"load">>
               /\ FileAsBefore(p)

\* C4's case: the call found no file and has thrown.
C4_Witness ==
    \E p \in Procs :
        /\ IsEnsure(p) /\ Done(p) /\ loaded[p] = Return(NullDoc)
        /\ before[p].file = Missing /\ before[p].intact

\* C5: load never ends in an error; for a file that does not exist, one
\* that cannot be read and one whose content does not parse it returns
\* absent, the same result in the three cases.
C5_LoadNeverThrows ==
    \A p \in Procs :
        IsEnsure(p)
            => /\ ~loaded[p].threw
               /\ (\/ before[p].file.kind \in {"missing", "unreadable"}
                   \/ before[p].file.text.syntax = "bad")
                     => loaded[p] = Return(NullDoc)

\* C5's case: a file whose content is no JSON document has been loaded.
C5_Witness ==
    \E p \in Procs :
        /\ IsEnsure(p) /\ before[p].file = TextFile(Garbage)
        /\ loaded[p] = Return(NullDoc)

-----------------------------------------------------------------------------
(* C6 - C10                                                                *)

C7_SetupOverwrites ==
    last.op = "setup"
        => /\ file.kind = "text" /\ file.text.syntax = "ok"
           /\ file.text.json.top = "object" /\ file.text.json.hasOauth
           /\ Stored.accessToken = last.input.accessToken
           /\ Stored.refreshToken = last.input.refreshToken
           /\ Stored.expiresAt = JsonValue(parseInt(last.input.expiresAt))
           /\ Stored.scopes = <<"user:inference", "user:profile">>
           /\ file.text.json.extra = ""

\* C7's case: setup(a) wrote, then setup(b) with another input wrote, b
\* given the expiry "1301".
C7_Witness ==
    /\ last.op = "setup"
    /\ last.input.expiresAt = <<"1", "3", "0", "1">>
    /\ Stored.expiresAt = Num(1301)
    /\ \E q \in Procs \ {last.by} :
          /\ Done(q) /\ trace[q] = <<"mkdir", "write">>
          /\ arg[q].accessToken # last.input.accessToken
          /\ arg[q].refreshToken # last.input.refreshToken
          /\ arg[q].expiresAt # last.input.expiresAt

\* C8: in every reachable state, after any interleaving of setups and
\* refreshes, failed ones included, the stored accessToken and expiresAt
\* are the pair one setup or one successful refresh wrote together
\* (last.pair is the pair the last writer was given: the token with the
\* expiry that belongs to it).
C8_TokenAndExpiryArePaired ==
    last.op # "none"
        => /\ file.kind = "text" /\ file.text.syntax = "ok" /\ file.text.json.hasOauth
           /\ <<Stored.accessToken, Stored.expiresAt>> = last.pair

\* C8's case: a refresh has replaced the record a setup wrote, and an
\* invocation of ensureValidToken has failed at the endpoint.
C8_Witness ==
    /\ last.op = "refresh"
    /\ loaded[last.by].value.oauth.accessToken = Str("A1")
    /\ last.pair[1] = Str("A8")
    /\ \E p \in Procs \ {last.by} :
          Done(p) /\ IsEnsure(p) /\ resp[p].kind = "http"

\* The places of event e in p's trace.
Places(p, e) == {i \in DOMAIN trace[p] : trace[p][i] = e}

\* C9: within one invocation of ensureValidToken, on every path, there is
\* at most one remote call and at most one write, the load precedes the
\* remote call, and a write happens only after the remote call returned
\* success.
C9_OneCallOneWrite ==
    \A p \in Procs :
        IsEnsure(p)
            => /\ Count(p, "fetch") <= 1
               /\ Count(p, "write") + Count(p, "writeFailed") <= 1
               /\ Count(p, "load") = 1
               /\ \A i \in Places(p, "fetch") : \E j \in Places(p, "load") : j < i
               /\ \A i \in Places(p, "mkdir") \cup Places(p, "mkdirFailed")
                         \cup Places(p, "write") \cup Places(p, "writeFailed") :
                      /\ \E j \in Places(p, "fetchOk") : j < i
                      /\ Places(p, "fetchFailed") = {}

\* C9's case: the longest path: load, remote call, success, save.
C9_Witness ==
    \E p \in Procs :
        /\ Done(p)
        /\ trace[p] = <<"load", "fetch", "fetchOk", "mkdir", "write">>

\* C10: when two invocations of ensureValidToken loaded the same expiring
\* record and both saved, each made its own remote call with the same
\* refresh token, and the stored record is exactly the one the last save
\* wrote: its three fields are the last writer's response, the rest is the
\* loaded document, and nothing of the earlier writer's response is left.
C10_LastWriterWins ==
    \A p, q \in Procs :
        (/\ p # q /\ IsEnsure(p) /\ IsEnsure(q)
         /\ before[p].file = before[q].file
         /\ Count(p, "write") = 1 /\ Count(q, "write") = 1
         /\ last.by = q)
            => /\ Count(p, "fetch") = 1 /\ Count(q, "fetch") = 1
               /\ sent[p] = sent[q]
               /\ sent[p] = loaded[p].value.oauth.refreshToken
               /\ file = TextFile([syntax |-> "ok", json |->
                     [loaded[q].value EXCEPT
                        !.oauth.accessToken = resp[q].body.access_token,
                        !.oauth.refreshToken = resp[q].body.refresh_token,
                        !.oauth.expiresAt = Num(nowL[q] + resp[q].body.expires_in.n)]])

\* C10's case: both loaded the same record before either saved, the
\* responses differ, and the one saved first is gone.
C10_Witness ==
    \E p, q \in Procs :
        /\ p # q /\ IsEnsure(p) /\ IsEnsure(q)
        /\ before[p].file = before[q].file
        /\ Count(p, "write") = 1 /\ Count(q, "write") = 1
        /\ last.by = q
        /\ resp[p].body.access_token = Str("A8")
        /\ resp[q].body.access_token # Str("A8")
        /\ Stored.accessToken # Str("A8")

-----------------------------------------------------------------------------
(* C11 - C14                                                               *)

\* p's call has decided (line 77) or thrown before deciding.
Decided(p) == IsEnsure(p) /\ pc[p] # "ev_decide"

\* C11: when setup was given an expiresAt that parseInt turns into NaN, the
\* record it stored appears expired to the next ensureValidToken at any
\* time: the call takes the refresh path and makes the remote call.
C11_MalformedExpiryAppearsExpired ==
    \A p \in Procs :
        (/\ Decided(p) /\ seen[p].some /\ seen[p].op = "setup"
         /\ seen[p].rec.oauth.expiresAt = NaN)
            => /\ Count(p, "fetch") = 1
               /\ sent[p] = seen[p].rec.oauth.refreshToken
               /\ ~(Done(p) /\ trace[p] = <<"load">>)

\* C11's case: setup was given "abc", and the next ensureValidToken, a
\* second later, has posted the refresh token setup stored.
C11_Witness ==
    \E p \in Procs :
        /\ Decided(p) /\ seen[p].some /\ seen[p].op = "setup"
        /\ seen[p].rec.oauth.expiresAt = NaN
        /\ nowL[p] = Now0 + 1
        /\ sent[p] = Str("R2")

\* p's current or last call is a call of setupOAuthCredentials.
IsSetup(p) == arg[p] # NoArg

\* C12 as stated: the missing-credentials error is never raised by setup,
\* setup performs no load and no remote call, and it succeeds from every
\* prior file state: no file, an unparseable file, a file holding a record.
C12_AsStated ==
    \A p \in Procs :
        (IsSetup(p) /\ file.kind # "unreadable")
            => /\ outcome[p] # MissingCredentialsError
               /\ Count(p, "load") = 0 /\ Count(p, "fetch") = 0
               /\ Done(p) => outcome[p] = Fulfilled

\* C12 amended: the missing-credentials error is never raised by setup,
\* setup performs no load and no remote call, and from every prior file
\* state (no file, an unparseable file, a file holding a record) it fails
\* only when mkdir or writeFile itself rejects, with that error unwrapped;
\* otherwise it succeeds and has written the file.
C12_SetupNeedsNoRecord ==
    \A p \in Procs :
        IsSetup(p)
            => /\ outcome[p] # MissingCredentialsError
               /\ outcome[p].wrapper = ""
               /\ Count(p, "load") = 0 /\ Count(p, "fetch") = 0
               /\ (Done(p) /\ file.kind # "unreadable")
                     => \/ /\ outcome[p] = Fulfilled
                           /\ trace[p] = <<"mkdir", "write">>
                        \/ /\ outcome[p] = FsError("EACCES")
                           /\ trace[p] = <<"mkdirFailed">>
                        \/ /\ outcome[p] = FsError("ENOSPC")
                           /\ trace[p] = <<"mkdir", "writeFailed">>

\* C12's case: setup has succeeded where ensureValidToken had just failed
\* for want of a record.
C12_Witness ==
    \E p, q \in Procs :
        /\ p # q /\ IsSetup(p) /\ Done(p) /\ outcome[p] = Fulfilled
        /\ IsEnsure(q) /\ Done(q) /\ outcome[q] = MissingCredentialsError
        /\ before[q].file \in {Missing, TextFile(Garbage)}
        /\ last.by = p

\* C13: after a refresh stored a record at time now, the next
\* ensureValidToken reads that record from the file and decides on its
\* expiry: at time t it makes the remote call if and only if
\* (now + expires_in) - t <= 300; when it makes none it writes nothing and
\* returns. (seen[p].pair[2] is now + expires_in of the refresh whose
\* record p read.)
C13_NextCheckUsesNewExpiry ==
    \A p \in Procs :
        (Decided(p) /\ seen[p].some /\ seen[p].op = "refresh")
            => /\ loaded[p] = Return(seen[p].rec)
               /\ loaded[p].value.oauth.expiresAt = seen[p].pair[2]
               /\ Count(p, "fetch") = 1 <=> seen[p].pair[2].n - nowL[p] <= 300
               /\ Count(p, "fetch") = 0
                     => /\ Done(p) /\ outcome[p] = Fulfilled
                        /\ trace[p] = <<"load">>
                        /\ FileAsBefore(p)

\* C13's case: the refresh got expires_in = 301, and the next call, with no
\* time elapsed, has returned without a remote call.
C13_Witness ==
    \E p \in Procs :
        /\ Decided(p) /\ seen[p].some /\ seen[p].op = "refresh"
        /\ seen[p].pair[2] = Num(nowL[p] + 301)
        /\ nowL[p] = Now0
        /\ Done(p) /\ before[p].intact

\* C14: a successful refresh changes accessToken, refreshToken and
\* expiresAt only: the scopes and every other content of the document are
\* after the call what they were before it.
C14_RefreshKeepsTheRest ==
    \A p \in Procs :
        (/\ IsEnsure(p) /\ Done(p) /\ Count(p, "write") = 1
         /\ before[p].intact /\ last.by = p)
            => /\ file.kind = "text" /\ file.text.syntax = "ok"
               /\ file.text.json.top = before[p].file.text.json.top
               /\ file.text.json.hasOauth = before[p].file.text.json.hasOauth
               /\ Stored.scopes = before[p].file.text.json.oauth.scopes
               /\ file.text.json.extra = before[p].file.text.json.extra

\* C14's case: the document refreshed held one scope and another key.
C14_Witness ==
    \E p \in Procs :
        /\ IsEnsure(p) /\ Done(p) /\ Count(p, "write") = 1
        /\ before[p].intact /\ last.by = p
        /\ Stored.scopes = <<"user:inference">>
        /\ file.text.json.extra = "x"
        /\ Stored.accessToken = Str("A8")

-----------------------------------------------------------------------------
(* C15 - C18                                                               *)

\* p's call is running: it has not returned or thrown yet.
Running(p) == pc[p] \notin {"idle", "done"}

\* C15: provided every filesystem operation and the remote call return,
\* with success or failure, every invocation of ensureValidToken and of
\* setupOAuthCredentials terminates, in success or in an error given to
\* the caller.
C15_EveryCallTerminates ==
    \A p \in Procs :
        []<>(/\ ~Running(p)
             /\ Done(p) => outcome[p].status \in {"ok", "error"})

\* C15's case: an invocation is waiting for the endpoint while the other
\* one is waiting for the filesystem.
C15_Witness ==
    \E p, q \in Procs : pc[p] = "ev_fetch" /\ pc[q] = "su_write"

\* C16: when the remote exchange succeeded and the save that follows
\* (mkdir or writeFile) failed, ensureValidToken ends in an error with the
\* wrapper 'Failed to refresh OAuth token: ', the one a remote failure
\* gets, around the filesystem's message; nothing was written, so the
\* stored record still holds the old accessToken, refreshToken and
\* expiresAt, while the record in memory holds the response's.
C16_FailedSaveKeepsOldRecord ==
    \A p \in Procs :
        (/\ IsEnsure(p) /\ Done(p)
         /\ Count(p, "fetchOk") = 1 /\ Count(p, "write") = 0)
            => /\ outcome[p].status = "error"
               /\ outcome[p].wrapper = WrapRefreshError(TransportError).wrapper
               /\ outcome[p].wrapper = "Failed to refresh OAuth token: "
               /\ outcome[p].message \in {"EACCES", "ENOSPC"}
               /\ trace[p] \in
                     { <<"load", "fetch", "fetchOk", "mkdirFailed">>,
                       <<"load", "fetch", "fetchOk", "mkdir", "writeFailed">> }
               /\ FileAsBefore(p)
               /\ last.by # p \/ before[p].intact
               /\ cred[p].oauth.accessToken = resp[p].body.access_token
               /\ cred[p].oauth.refreshToken = resp[p].body.refresh_token

\* C16's case: the endpoint issued A8/R8, writeFile then rejected, and the
\* file still holds A0/R0 and the old expiry.
C16_Witness ==
    \E p \in Procs :
        /\ IsEnsure(p) /\ Done(p)
        /\ trace[p] = <<"load", "fetch", "fetchOk", "mkdir", "writeFailed">>
        /\ resp[p].body.access_token = Str("A8")
        /\ before[p].intact
        /\ file.kind = "text" /\ file.text.syntax = "ok" /\ file.text.json.hasOauth
        /\ Stored.accessToken = Str("A0")
        /\ Stored.refreshToken = Str("R0")
        /\ Stored.expiresAt = Num(Now0 + ExpiryBuffer)

\* The file p's call read parses as JSON and holds no complete credential
\* record: no claudeAiOauth object, or one without a numeric expiresAt.
Incomplete(p) ==
    /\ before[p].file.kind = "text"
    /\ before[p].file.text.syntax = "ok"
    /\ \/ ~before[p].file.text.json.hasOauth
       \/ before[p].file.text.json.oauth.expiresAt.t # "num"

\* C17: for every file content that parses as JSON and holds no complete
\* credential record, ensureValidToken never returns success without a
\* remote call: it fails, or it takes the refresh path.
C17_AsStated ==
    \A p \in Procs :
        (IsEnsure(p) /\ Incomplete(p) /\ Done(p) /\ outcome[p] = Fulfilled)
            => Count(p, "fetch") = 1

\* C18: when setupOAuthCredentials wrote its record between the load and
\* the save of a refreshing ensureValidToken, and that save is the last
\* write, the file is the document the refresh loaded with the response's
\* three fields: the exchange was made with the refresh token stored
\* before setup, and neither token of setup is in the file.
C18_RefreshOverwritesSetup ==
    \A p, q \in Procs :
        (/\ p # q /\ IsEnsure(p) /\ Count(p, "write") = 1 /\ last.by = p
         /\ IsSetup(q) /\ trace[q] = <<"mkdir", "write">>
         /\ ~before[p].intact)
            => /\ sent[p] = before[p].file.text.json.oauth.refreshToken
               /\ file = TextFile([syntax |-> "ok", json |->
                     [before[p].file.text.json EXCEPT
                        !.oauth.accessToken = resp[p].body.access_token,
                        !.oauth.refreshToken = resp[p].body.refresh_token,
                        !.oauth.expiresAt = Num(nowL[p] + resp[p].body.expires_in.n)]])
               /\ Stored.accessToken # arg[q].accessToken
               /\ Stored.refreshToken # arg[q].refreshToken
               /\ file # writtenFile(SetupRecord(arg[q]))

\* C18's case: the refresh loaded A0/R0 with one scope and other content,
\* setup stored A1/R1, and the refresh then saved A8/R8 over it.
C18_Witness ==
    \E p, q \in Procs :
        /\ p # q /\ IsEnsure(p) /\ Count(p, "write") = 1 /\ last.by = p
        /\ IsSetup(q) /\ trace[q] = <<"mkdir", "write">>
        /\ ~before[p].intact
        /\ arg[q].accessToken = Str("A1")
        /\ sent[p] = Str("R0")
        /\ Stored.accessToken = Str("A8") /\ Stored.refreshToken = Str("R8")
        /\ Stored.scopes = <<"user:inference">>

====
